---- MODULE Spec2Model ----
(***************************************************************************)
(* Podlet: a registrar of typed registries that lazily construct one       *)
(* registrant instance per identity.                                       *)
(*                                                                         *)
(* The state is the registrars (kind -> registry, each registry with its   *)
(* registered and initialized dictionaries), the registrant instances that *)
(* have been constructed, and the stack of constructions in progress: a    *)
(* registrant's initialize() is user code that runs inside Registry.get    *)
(* and may itself call back into the registrar.                            *)
(***************************************************************************)
EXTENDS Integers, Sequences, FiniteSets, TLC

\* Bounds of the model.
MaxInstances == 2   \* registrant instances constructed in one behaviour
MaxDepth == 2       \* constructions in progress at once (get inside initialize)
MaxArgs == 2        \* classes passed in one register(...) / resources=[...] list

-----------------------------------------------------------------------------
(* The classes a program can hand to the framework.                        *)

Kinds == {"resource", "service"}
Identities == {"database", "cache", "mailer"}
\* String literals a caller may pass where a kind or an identity is expected.
StrLiterals == Kinds \cup Identities \cup {"apple"}

\* Error markers (Python exception types).
TypeError == "TypeError"
ValueError == "ValueError"
KeyError == "KeyError"
RuntimeError == "RuntimeError"
ImportError == "ImportError"

\* Registrant classes: kind(), identity() and the classes they derive from.
RegistrantTable ==
  [ DatabaseResource |->
      [kind |-> "resource", identity |-> "database",
       mro |-> {"DatabaseResource", "ResourceAbstract", "RegistrantAbstract"}],
    ReplicaDatabase |->      \* class ReplicaDatabase(DatabaseResource)
      [kind |-> "resource", identity |-> "database",
       mro |-> {"ReplicaDatabase", "DatabaseResource", "ResourceAbstract",
                "RegistrantAbstract"}],
    CacheResource |->
      [kind |-> "resource", identity |-> "cache",
       mro |-> {"CacheResource", "ResourceAbstract", "RegistrantAbstract"}],
    RogueResource |->        \* kind() = "resource" without ResourceAbstract
      [kind |-> "resource", identity |-> "database",
       mro |-> {"RogueResource", "RegistrantAbstract"}],
    MailerService |->
      [kind |-> "service", identity |-> "mailer",
       mro |-> {"MailerService", "ServiceAbstract", "RegistrantAbstract"}],
    ServiceLikeResource |->  \* a ResourceAbstract that overrides kind()
      [kind |-> "service", identity |-> "database",
       mro |-> {"ServiceLikeResource", "ResourceAbstract", "RegistrantAbstract"}],
    ResourceAbstract |->
      [kind |-> "resource", identity |-> "resource_abstract",
       mro |-> {"ResourceAbstract", "RegistrantAbstract"}],
    ServiceAbstract |->
      [kind |-> "service", identity |-> "service_abstract",
       mro |-> {"ServiceAbstract", "RegistrantAbstract"}] ]

RegistrantClasses ==
  {"DatabaseResource", "ReplicaDatabase", "CacheResource", "RogueResource",
   "MailerService", "ServiceLikeResource"}
RegistrantTypes == RegistrantClasses \cup {"ResourceAbstract", "ServiceAbstract"}

\* Registry classes: the generic argument of Registry[...] and the value of an
\* overriding kind() ("none": kind() is inherited from Registry).
RegistryTable ==
  [ ResourceRegistry |->
      [registrant_type |-> "ResourceAbstract", kind_override |-> "resource"],
    ServiceRegistry |->
      [registrant_type |-> "ServiceAbstract", kind_override |-> "none"],
    AltResourceRegistry |->  \* Registry[ServiceAbstract] declaring kind "resource"
      [registrant_type |-> "ServiceAbstract", kind_override |-> "resource"] ]

RegistryClasses == {"ResourceRegistry", "ServiceRegistry", "AltResourceRegistry"}

RegistrarIds == {"r1"}

IsSubclass(klass, type) ==
  /\ klass \in RegistrantTypes
  /\ type \in RegistrantTable[klass].mro

-----------------------------------------------------------------------------
(* Dictionaries are functions with a finite domain.                        *)

EmptyDict == [x \in {} |-> x]
Put(d, k, v) == [x \in DOMAIN d \cup {k} |-> IF x = k THEN v ELSE d[x]]

-----------------------------------------------------------------------------
(* helpers.Resolve and the class-level methods.                            *)

\* Registry._registrant_type: the first generic argument of the bases.
registrant_type(registry_klass) == RegistryTable[registry_klass].registrant_type

\* Registry.kind: the overriding kind(), else the managed type's kind().
Registry_kind(registry_klass) ==
  IF RegistryTable[registry_klass].kind_override # "none"
  THEN RegistryTable[registry_klass].kind_override
  ELSE RegistrantTable[registrant_type(registry_klass)].kind

Resolve_kind(unknown) ==
  IF unknown \in StrLiterals THEN unknown
  ELSE IF unknown \in RegistrantTypes THEN RegistrantTable[unknown].kind
  ELSE IF unknown \in RegistryClasses THEN Registry_kind(unknown)
  ELSE TypeError

\* A variant of Resolve.identity that takes a class for its own name.
Resolve_identity_by_name(unknown) ==
  IF unknown \in StrLiterals \/ unknown \in RegistrantTypes THEN unknown
  ELSE TypeError

Resolve_identity(unknown) ==
  IF unknown \in StrLiterals THEN unknown
  ELSE IF unknown \in RegistrantTypes THEN RegistrantTable[unknown].identity
  ELSE TypeError

-----------------------------------------------------------------------------
VARIABLES
  registrars,   \* registrar id -> [bootstrap, registries: kind -> registry]
  heap,         \* the registrant instances constructed so far, by instance id
  stack,        \* Registry.get calls whose klass(registry=self) is running
  registry_objects, \* number of registry objects the registrars hold
  last,         \* the call made by the last step and how it ended
  options,      \* registrar id -> the dict object its options attribute names
  dicts,        \* dict object -> its content: kind -> identity -> options
  class_name,   \* the __name__ of a resource class, a sequence of characters
  class_kind,   \* the kind() of that class
  derived       \* snake_case(__name__) and identity() once they are computed

corevars == <<registrars, heap, stack, registry_objects, last>>
optvars == <<options, dicts>>
namevars == <<class_name, class_kind, derived>>
vars == <<registrars, heap, stack, registry_objects, last, options, dicts,
          class_name, class_kind, derived>>

\* A registry object: Registry.__init__.
NewRegistry(registry_klass) ==
  [klass |-> registry_klass, registered |-> EmptyDict, initialized |-> EmptyDict]

\* The record of a step: the operation called, its argument (a string or
\* class, the list of classes of Registrar.register, "none" for a
\* constructor), how it ended ("ok", "pending" while
\* initialize() runs, "raised" when initialize() raised, or an error type)
\* and the instance it returned (0: none).
Call(op, arg, outcome, value) ==
  [op |-> op, arg |-> arg, outcome |-> outcome, value |-> value]

NoCall == Call("none", "none", "ok", 0)
\* User code is running (at top level, or in the body of the innermost
\* initialize()) and is free to make its next call.
Idle == last = NoCall

\* The dict object that is the default of Bootstrap.__init__'s options
\* parameter: created once, when the function is defined.
DefaultDict == "default"

NotDerived == [done |-> FALSE, snake |-> <<>>, identity |-> <<>>]

Init ==
  /\ registrars = EmptyDict
  /\ heap = <<>>
  /\ stack = <<>>
  /\ registry_objects = 0
  /\ last = NoCall
  /\ options = EmptyDict
  /\ dicts = [d \in {DefaultDict} |-> EmptyDict]
  /\ class_name = <<>>
  /\ class_kind = "resource"
  /\ derived = NotDerived

-----------------------------------------------------------------------------
(* Registry: presence checks, register.                                    *)

has_registered(reg, ident_or_type) ==
  Resolve_identity(ident_or_type) \in DOMAIN reg.registered

has_initialized(reg, ident_or_type) ==
  Resolve_identity(ident_or_type) \in DOMAIN reg.initialized

is_compatible(reg, klass) ==
  \/ klass = registrant_type(reg.klass)
  \/ IsSubclass(klass, registrant_type(reg.klass))

\* A variant of Registry.register without the kind validation.
Registry_register_unchecked_kind(reg, klass) ==
  IF ~is_compatible(reg, klass)
  THEN [reg |-> reg, outcome |-> TypeError]
  ELSE IF RegistrantTable[klass].identity \notin DOMAIN reg.registered
  THEN [reg |-> [reg EXCEPT !.registered =
                   Put(@, RegistrantTable[klass].identity, klass)],
        outcome |-> "ok"]
  ELSE [reg |-> reg, outcome |-> "ok"]

\* A variant of Registry.register that stores the class whether or not its
\* identity is already registered.
Registry_register_overwriting(reg, klass) ==
  IF ~is_compatible(reg, klass)
  THEN [reg |-> reg, outcome |-> TypeError]
  ELSE IF Resolve_kind(klass) # Registry_kind(reg.klass)
  THEN [reg |-> reg, outcome |-> ValueError]
  ELSE [reg |-> [reg EXCEPT !.registered =
                   Put(@, RegistrantTable[klass].identity, klass)],
        outcome |-> "ok"]

\* Registry.register: the registry afterwards and how the call ended.
Registry_register(reg, klass) ==
  IF ~is_compatible(reg, klass)
  THEN [reg |-> reg, outcome |-> TypeError]
  ELSE IF Resolve_kind(klass) # Registry_kind(reg.klass)
  THEN [reg |-> reg, outcome |-> ValueError]
  ELSE IF RegistrantTable[klass].identity \notin DOMAIN reg.registered
  THEN [reg |-> [reg EXCEPT !.registered =
                   Put(@, RegistrantTable[klass].identity, klass)],
        outcome |-> "ok"]
  ELSE [reg |-> reg, outcome |-> "ok"]

-----------------------------------------------------------------------------
(* Registrar.                                                              *)

has_registry(registries, kind_or_type) ==
  Resolve_kind(kind_or_type) \in DOMAIN registries

\* A variant of register_registry that instantiates the registry class also
\* when the kind already has a registry.
register_registry_replacing(registries, registry_klass) ==
  IF registry_klass \notin RegistryClasses
  THEN [registries |-> registries, outcome |-> TypeError, created |-> FALSE]
  ELSE IF Resolve_kind(registry_klass) # Registry_kind(registry_klass)
  THEN [registries |-> registries, outcome |-> ValueError, created |-> FALSE]
  ELSE [registries |-> Put(registries, Resolve_kind(registry_klass),
                           NewRegistry(registry_klass)),
        outcome |-> "ok", created |-> TRUE]

\* Registrar.register_registry: the registries afterwards, the outcome and
\* whether a registry object was created.
register_registry(registries, registry_klass) ==
  IF registry_klass \notin RegistryClasses
  THEN [registries |-> registries, outcome |-> TypeError, created |-> FALSE]
  ELSE IF Resolve_kind(registry_klass) # Registry_kind(registry_klass)
  THEN [registries |-> registries, outcome |-> ValueError, created |-> FALSE]
  ELSE IF Resolve_kind(registry_klass) \notin DOMAIN registries
  THEN [registries |-> Put(registries, Resolve_kind(registry_klass),
                           NewRegistry(registry_klass)),
        outcome |-> "ok", created |-> TRUE]
  ELSE [registries |-> registries, outcome |-> "ok", created |-> FALSE]

\* A variant of Registrar.register that skips a class whose kind has no
\* registry instead of raising.
RECURSIVE Registrar_register_skipping(_, _)
Registrar_register_skipping(registries, klasses) ==
  IF klasses = <<>> THEN [registries |-> registries, outcome |-> "ok"]
  ELSE LET klass == Head(klasses)
           kind == Resolve_kind(klass)
       IN IF ~has_registry(registries, kind)
          THEN Registrar_register_skipping(registries, Tail(klasses))
          ELSE LET done == Registry_register(registries[kind], klass)
               IN IF done.outcome # "ok"
                  THEN [registries |-> registries, outcome |-> done.outcome]
                  ELSE Registrar_register_skipping(
                         [registries EXCEPT ![kind] = done.reg], Tail(klasses))

\* A variant of Registrar.register that undoes the registrations it made
\* when a later class fails.
RECURSIVE register_or_restore(_, _, _)
register_or_restore(saved, registries, klasses) ==
  IF klasses = <<>> THEN [registries |-> registries, outcome |-> "ok"]
  ELSE LET klass == Head(klasses)
           kind == Resolve_kind(klass)
       IN IF ~has_registry(registries, kind)
          THEN [registries |-> saved, outcome |-> ValueError]
          ELSE LET done == Registry_register(registries[kind], klass)
               IN IF done.outcome # "ok"
                  THEN [registries |-> saved, outcome |-> done.outcome]
                  ELSE register_or_restore(
                         saved, [registries EXCEPT ![kind] = done.reg], Tail(klasses))

Registrar_register_atomic(registries, klasses) ==
  register_or_restore(registries, registries, klasses)

\* Registrar.register(*klasses): class by class, stopping at the first error.
RECURSIVE Registrar_register(_, _)
Registrar_register(registries, klasses) ==
  IF klasses = <<>> THEN [registries |-> registries, outcome |-> "ok"]
  ELSE LET klass == Head(klasses)
           kind == Resolve_kind(klass)
       IN IF ~has_registry(registries, kind)
          THEN [registries |-> registries, outcome |-> ValueError]
          ELSE LET done == Registry_register(registries[kind], klass)
               IN IF done.outcome # "ok"
                  THEN [registries |-> registries, outcome |-> done.outcome]
                  ELSE Registrar_register(
                         [registries EXCEPT ![kind] = done.reg], Tail(klasses))

\* A variant of the loop of Bootstrap.__init__ that registers the first
\* resource only.
RegisterResourcesFirstOnly(reg, resources) ==
  IF resources = <<>> THEN [reg |-> reg, outcome |-> "ok"]
  ELSE Registry_register(reg, Head(resources))

\* The loop of Bootstrap.__init__: registry.register(resource) for each one.
RECURSIVE RegisterResources(_, _)
RegisterResources(reg, resources) ==
  IF resources = <<>> THEN [reg |-> reg, outcome |-> "ok"]
  ELSE LET done == Registry_register(reg, Head(resources))
       IN IF done.outcome # "ok" THEN done
          ELSE RegisterResources(done.reg, Tail(resources))

\* The argument lists tried for register(*klasses) and resources=[...]: lists
\* of distinct classes, at most MaxArgs long.
ListClasses == {"DatabaseResource", "CacheResource", "RogueResource", "MailerService"}
ClassLists ==
  UNION {{l \in [1..n -> ListClasses] : \A i, j \in 1..n : l[i] = l[j] => i = j} :
         n \in 0..MaxArgs}

\* The lists tried for Bootstrap(resources=[...]): also a class and its
\* subclass, which share an identity.
BootstrapLists ==
  ClassLists \cup {<<"ReplicaDatabase">>, <<"DatabaseResource", "ReplicaDatabase">>,
                   <<"ReplicaDatabase", "DatabaseResource">>}

-----------------------------------------------------------------------------
(* Actions: constructing registrars and registering.                       *)

\* Registrar(): no registries.
NewRegistrar(r) ==
  /\ Idle
  /\ r \notin DOMAIN registrars
  /\ registrars' = Put(registrars, r, [bootstrap |-> FALSE, registries |-> EmptyDict])
  /\ last' = Call("Registrar", "none", "ok", 0)
  /\ UNCHANGED <<heap, stack, registry_objects>>

\* Bootstrap(resources=[...]): an error in the loop propagates out of __init__,
\* so no Bootstrap (and no registry of it) is left for the caller.
NewBootstrap(r, resources) ==
  LET made == register_registry(EmptyDict, "ResourceRegistry")
      kind == Resolve_kind("ResourceAbstract")
      done == RegisterResources(made.registries[kind], resources)
  IN /\ Idle
     /\ r \notin DOMAIN registrars
     /\ registry_objects' = IF done.outcome = "ok" THEN registry_objects + 1 ELSE registry_objects
     /\ last' = Call("Bootstrap", "none", done.outcome, 0)
     /\ registrars' =
          IF done.outcome = "ok"
          THEN Put(registrars, r,
                   [bootstrap |-> TRUE,
                    registries |-> [made.registries EXCEPT ![kind] = done.reg]])
          ELSE registrars
     /\ UNCHANGED <<heap, stack>>

RegisterRegistry(r, registry_klass) ==
  LET done == register_registry(registrars[r].registries, registry_klass)
  IN /\ Idle
     /\ r \in DOMAIN registrars
     /\ registrars' = [registrars EXCEPT ![r].registries = done.registries]
     /\ registry_objects' = IF done.created THEN registry_objects + 1 ELSE registry_objects
     /\ last' = Call("register_registry", registry_klass, done.outcome, 0)
     /\ UNCHANGED <<heap, stack>>

RegistrarRegister(r, klasses) ==
  LET done == Registrar_register(registrars[r].registries, klasses)
  IN /\ Idle
     /\ r \in DOMAIN registrars
     /\ registrars' = [registrars EXCEPT ![r].registries = done.registries]
     /\ last' = Call("Registrar.register", klasses, done.outcome, 0)
     /\ UNCHANGED <<heap, stack, registry_objects>>

\* registry.register(klass) on the registry a registrar holds for kind.
RegistryRegister(r, kind, klass) ==
  /\ Idle
  /\ r \in DOMAIN registrars
  /\ kind \in DOMAIN registrars[r].registries
  /\ LET done == Registry_register(registrars[r].registries[kind], klass)
     IN /\ registrars' = [registrars EXCEPT ![r].registries[kind] = done.reg]
        /\ last' = Call("Registry.register", klass, done.outcome, 0)
  /\ UNCHANGED <<heap, stack, registry_objects>>

-----------------------------------------------------------------------------
(* Registrant instances and their initialization window.                   *)

\* klass(registry=self) up to the call of initialize(): __init__ stores the
\* registry, _initialization_context finds neither flag set and opens the
\* window, and the body of initialize() starts running.
NewInstance(klass, registry) ==
  [klass |-> klass, registry |-> registry, is_initializing |-> TRUE,
   is_initialized |-> FALSE, patched |-> FALSE, body_runs |-> 1]

\* initialize() returned: the context closes the window, then __init__
\* replaces self.initialize by a no-op.
Completed(inst) ==
  [inst EXCEPT !.is_initializing = FALSE, !.is_initialized = TRUE, !.patched = TRUE]

\* initialize() raised: only the finally clause of the context runs.
Failed(inst) ==
  [inst EXCEPT !.is_initializing = FALSE, !.is_initialized = TRUE]

\* The instances user code holds a reference to: those a get has returned.
Held == {n \in 1..Len(heap) : heap[n].patched}
\* The instance whose initialize() is running (self in that body), if any.
Running == IF stack = <<>> THEN {} ELSE {stack[Len(stack)].inst}

\* A variant of initialize in which __init__ fails to replace the method (the
\* no-op is bound under another name), so every call runs the body.
initialize_unpatched(inst) ==
  [inst EXCEPT !.body_runs = IF @ < 2 THEN @ + 1 ELSE @]

\* inst.initialize() called by user code: the no-op once patched, the body
\* otherwise.
initialize(inst) ==
  IF inst.patched THEN inst
  ELSE [inst EXCEPT !.body_runs = IF @ < 2 THEN @ + 1 ELSE @]

\* The names resource.py binds at module level.
ResourceModuleNames ==
  {"ABC", "abstractmethod", "UserDict", "Any", "Dict", "Self", "Type", "TypeVar",
   "_only_while_initializing", "snake_case", "RegistrantAbstract",
   "RegistrantIdentity", "RegistrantKind", "Registry", "only_while_initializing",
   "ResourceAbstract", "ResourceRegistry"}

\* The wrapper of only_while_initializing, called on a registrant instance:
\* whether the wrapped function runs ("ok") or which error is raised. Its
\* first statements import RegistrantAbstract and `wraps` from .resource.
only_while_initializing(inst) ==
  IF "wraps" \notin ResourceModuleNames THEN ImportError
  ELSE IF ~inst.is_initializing THEN RuntimeError
  ELSE "ok"

CallInitialize(n) ==
  /\ Idle
  /\ n \in Held
  /\ heap' = [heap EXCEPT ![n] = initialize(@)]
  /\ last' = Call("initialize", "none", "ok", n)
  /\ UNCHANGED <<registrars, stack, registry_objects>>

CallDecorated(n) ==
  /\ Idle
  /\ n \in Held \cup Running
  /\ last' = Call("decorated", "none", only_while_initializing(heap[n]), n)
  /\ UNCHANGED <<registrars, heap, stack, registry_objects>>

-----------------------------------------------------------------------------
(* Registry.get, and the callers that route to it.                         *)

\* Bootstrap.get_resource: the type the returned instance must have.
expected_type(ident_or_type) ==
  IF ident_or_type \in RegistrantTypes THEN ident_or_type ELSE "ResourceAbstract"

\* A variant of Finish in which get_resource returns the instance unchecked.
FinishUnchecked(op, x, inst) == "ok"

\* What the caller of Registry.get does with the instance it got back:
\* Registrar.get returns it; Bootstrap.get_resource raises TypeError unless
\* isinstance(resource, expected_type).
Finish(op, x, inst) ==
  IF op = "get_resource" /\ ~IsSubclass(inst.klass, expected_type(x))
  THEN TypeError
  ELSE "ok"

\* A variant of GetUnregistered that returns None (a dict.get lookup) instead
\* of raising.
GetUnregisteredReturnsNone(op, x) ==
  /\ last' = Call(op, x, "ok", 0)
  /\ UNCHANGED <<registrars, heap, stack, registry_objects>>

\* Registry.get, identity not registered: raise.
GetUnregistered(op, x) ==
  /\ last' = Call(op, x, ValueError, 0)
  /\ UNCHANGED <<registrars, heap, stack, registry_objects>>

\* Registry.get, identity already in initialized: return the cached instance.
GetCached(op, x, reg, identity) ==
  LET n == reg.initialized[identity]
  IN /\ last' = Call(op, x, Finish(op, x, heap[n]),
                     IF Finish(op, x, heap[n]) = "ok" THEN n ELSE 0)
     /\ UNCHANGED <<registrars, heap, stack, registry_objects>>

\* Registry.get, registered and not in initialized: klass(registry=self)
\* starts and runs up to the body of initialize().
GetConstruct(op, x, r, kind, identity) ==
  LET reg == registrars[r].registries[kind]
      n == Len(heap) + 1
  IN /\ Len(heap) < MaxInstances
     /\ Len(stack) < MaxDepth
     /\ heap' = Append(heap, NewInstance(reg.registered[identity], <<r, kind>>))
     /\ stack' = Append(stack, [op |-> op, arg |-> x, r |-> r, kind |-> kind,
                                ident |-> identity, inst |-> n])
     /\ last' = Call(op, x, "pending", n)
     /\ UNCHANGED <<registrars, registry_objects>>

Registry_get(op, r, kind, x) ==
  LET reg == registrars[r].registries[kind]
      identity == Resolve_identity(x)
  IN \/ /\ ~has_registered(reg, identity)
        /\ GetUnregistered(op, x)
     \/ /\ has_registered(reg, identity)
        /\ has_initialized(reg, identity)
        /\ GetCached(op, x, reg, identity)
     \/ /\ has_registered(reg, identity)
        /\ ~has_initialized(reg, identity)
        /\ GetConstruct(op, x, r, kind, identity)

\* The end of Registry.get after klass(registry=self) returned: store the
\* instance under the identity.
Store(reg, identity, n) ==
  [reg EXCEPT !.initialized = Put(@, identity, n)]

\* A variant of InitializeReturns in which initialized is one dictionary of
\* the registry class, shared by the registries of all registrars.
InitializeReturnsShared ==
  /\ Idle
  /\ stack # <<>>
  /\ LET f == stack[Len(stack)]
     IN /\ heap' = [heap EXCEPT ![f.inst] = Completed(@)]
        /\ registrars' =
             [q \in DOMAIN registrars |->
                IF f.kind \in DOMAIN registrars[q].registries
                THEN [registrars[q] EXCEPT
                        !.registries[f.kind] = Store(@, f.ident, f.inst)]
                ELSE registrars[q]]
        /\ stack' = SubSeq(stack, 1, Len(stack) - 1)
        /\ last' = Call(f.op, f.arg, Finish(f.op, f.arg, heap[f.inst]),
                        IF Finish(f.op, f.arg, heap[f.inst]) = "ok" THEN f.inst ELSE 0)
        /\ UNCHANGED registry_objects

\* initialize() of the innermost construction returns: __init__ finishes,
\* Registry.get stores the instance under its identity and returns it.
InitializeReturns ==
  /\ Idle
  /\ stack # <<>>
  /\ LET f == stack[Len(stack)]
     IN /\ heap' = [heap EXCEPT ![f.inst] = Completed(@)]
        /\ registrars' = [registrars EXCEPT
             ![f.r].registries[f.kind] = Store(@, f.ident, f.inst)]
        /\ stack' = SubSeq(stack, 1, Len(stack) - 1)
        /\ last' = Call(f.op, f.arg, Finish(f.op, f.arg, heap[f.inst]),
                        IF Finish(f.op, f.arg, heap[f.inst]) = "ok" THEN f.inst ELSE 0)
        /\ UNCHANGED registry_objects

\* A variant of InitializeRaises in which Registry.get catches the error
\* after storing the instance under its identity.
InitializeRaisesCaching ==
  /\ Idle
  /\ stack # <<>>
  /\ LET f == stack[Len(stack)]
     IN /\ heap' = [heap EXCEPT ![f.inst] = Failed(@)]
        /\ registrars' = [registrars EXCEPT
             ![f.r].registries[f.kind] = Store(@, f.ident, f.inst)]
        /\ stack' = SubSeq(stack, 1, Len(stack) - 1)
        /\ last' = Call(f.op, f.arg, "raised", 0)
        /\ UNCHANGED registry_objects

\* initialize() of the innermost construction raises: the error leaves
\* __init__ and Registry.get, nothing is stored.
InitializeRaises ==
  /\ Idle
  /\ stack # <<>>
  /\ LET f == stack[Len(stack)]
     IN /\ heap' = [heap EXCEPT ![f.inst] = Failed(@)]
        /\ stack' = SubSeq(stack, 1, Len(stack) - 1)
        /\ last' = Call(f.op, f.arg, "raised", 0)
        /\ UNCHANGED <<registrars, registry_objects>>

\* registry.get(x) on the registry a registrar holds for kind.
RegistryGet(r, kind, x) ==
  /\ Idle
  /\ r \in DOMAIN registrars
  /\ kind \in DOMAIN registrars[r].registries
  /\ Registry_get("get", r, kind, x)

\* A variant of Registrar.get that reports a kind without a registry as an
\* unregistered identity.
RegistrarGetNotRegistered(r, kind_or_type, x) ==
  /\ Idle
  /\ r \in DOMAIN registrars
  /\ IF Resolve_kind(kind_or_type) \notin DOMAIN registrars[r].registries
     THEN /\ last' = Call("Registrar.get", x, ValueError, 0)
          /\ UNCHANGED <<registrars, heap, stack, registry_objects>>
     ELSE Registry_get("get", r, Resolve_kind(kind_or_type), x)

\* Registrar.get(kind_or_type, x): get_registry, then its get.
RegistrarGet(r, kind_or_type, x) ==
  /\ Idle
  /\ r \in DOMAIN registrars
  /\ IF Resolve_kind(kind_or_type) \notin DOMAIN registrars[r].registries
     THEN /\ last' = Call("Registrar.get", x, KeyError, 0)
          /\ UNCHANGED <<registrars, heap, stack, registry_objects>>
     ELSE Registry_get("get", r, Resolve_kind(kind_or_type), x)

\* Bootstrap.get_resource(x): self.get("resource", identity), then the
\* isinstance check.
GetResource(r, x) ==
  /\ Idle
  /\ r \in DOMAIN registrars
  /\ registrars[r].bootstrap
  /\ Registry_get("get_resource", r, RegistrantTable["ResourceAbstract"].kind, x)

\* The call of the last step has ended (or has reached the body of
\* initialize()): user code takes its result and goes on.
Return ==
  /\ ~Idle
  /\ last' = NoCall
  /\ UNCHANGED <<registrars, heap, stack, registry_objects>>

\* What a caller may pass as ident_or_type / kind_or_type.
IdentArgs == Identities \cup {"apple"} \cup
             {"DatabaseResource", "ReplicaDatabase", "CacheResource", "MailerService"}
KindArgs == {"resource", "ResourceAbstract", "ServiceRegistry"}

\* Registrar() starts with a dict of its own (default_factory=dict).
OwnOptions(r) ==
  /\ options' = Put(options, r, r)
  /\ dicts' = Put(dicts, r, EmptyDict)

\* Bootstrap(resources=...) without options: super().__init__({}, options)
\* stores the default object of the parameter.
DefaultOptions(r) ==
  /\ options' = IF r \in DOMAIN registrars' THEN Put(options, r, DefaultDict)
                ELSE options
  /\ UNCHANGED dicts

Next ==
  \/ \E r \in RegistrarIds : NewRegistrar(r) /\ OwnOptions(r) /\ UNCHANGED namevars
  \/ \E r \in RegistrarIds, resources \in BootstrapLists :
       NewBootstrap(r, resources) /\ DefaultOptions(r) /\ UNCHANGED namevars
  \/ \E r \in RegistrarIds, rc \in RegistryClasses \cup {"DatabaseResource"} :
       RegisterRegistry(r, rc) /\ UNCHANGED <<optvars, namevars>>
  \/ \E r \in RegistrarIds, klasses \in ClassLists :
       RegistrarRegister(r, klasses) /\ UNCHANGED <<optvars, namevars>>
  \/ \E r \in RegistrarIds, kind \in Kinds, klass \in RegistrantClasses :
       RegistryRegister(r, kind, klass) /\ UNCHANGED <<optvars, namevars>>
  \/ \E r \in RegistrarIds, kind \in Kinds, x \in IdentArgs :
       RegistryGet(r, kind, x) /\ UNCHANGED <<optvars, namevars>>
  \/ \E r \in RegistrarIds, k \in KindArgs, x \in IdentArgs :
       RegistrarGet(r, k, x) /\ UNCHANGED <<optvars, namevars>>
  \/ \E r \in RegistrarIds, x \in IdentArgs :
       GetResource(r, x) /\ UNCHANGED <<optvars, namevars>>
  \/ InitializeReturns /\ UNCHANGED <<optvars, namevars>>
  \/ InitializeRaises /\ UNCHANGED <<optvars, namevars>>
  \/ \E n \in 1..MaxInstances : CallInitialize(n) /\ UNCHANGED <<optvars, namevars>>
  \/ \E n \in 1..MaxInstances : CallDecorated(n) /\ UNCHANGED <<optvars, namevars>>
  \/ Return /\ UNCHANGED <<optvars, namevars>>

Spec == Init /\ [][Next]_vars
-----------------------------------------------------------------------------
(* Lookups that only answer: has_registered, has_initialized, has_registry, *)
(* get_registry.                                                           *)

\* The record of a call that returns something other than an instance.
Answer(op, arg, outcome, result) ==
  [op |-> op, arg |-> arg, outcome |-> outcome, value |-> 0, result |-> result]

HasRegistered(r, kind, x) ==
  /\ Idle
  /\ r \in DOMAIN registrars
  /\ kind \in DOMAIN registrars[r].registries
  /\ last' = Answer("has_registered", x, "ok",
                    has_registered(registrars[r].registries[kind], x))
  /\ UNCHANGED <<registrars, heap, stack, registry_objects>>

HasInitialized(r, kind, x) ==
  /\ Idle
  /\ r \in DOMAIN registrars
  /\ kind \in DOMAIN registrars[r].registries
  /\ last' = Answer("has_initialized", x, "ok",
                    has_initialized(registrars[r].registries[kind], x))
  /\ UNCHANGED <<registrars, heap, stack, registry_objects>>

HasRegistry(r, kind_or_type) ==
  /\ Idle
  /\ r \in DOMAIN registrars
  /\ last' = Answer("has_registry", kind_or_type, "ok",
                    has_registry(registrars[r].registries, kind_or_type))
  /\ UNCHANGED <<registrars, heap, stack, registry_objects>>

\* Registrar.get_registry: the registry held under the resolved kind (named
\* by its registrar and kind), or KeyError.
get_registry(r, kind_or_type) ==
  IF Resolve_kind(kind_or_type) \notin DOMAIN registrars[r].registries
  THEN [outcome |-> KeyError, registry |-> <<>>]
  ELSE [outcome |-> "ok", registry |-> <<r, Resolve_kind(kind_or_type)>>]

GetRegistry(r, kind_or_type) ==
  /\ Idle
  /\ r \in DOMAIN registrars
  /\ last' = Answer("get_registry", kind_or_type,
                    get_registry(r, kind_or_type).outcome,
                    get_registry(r, kind_or_type).registry)
  /\ UNCHANGED <<registrars, heap, stack, registry_objects>>

\* The arguments of the lookups: strings, registrant classes, registry classes.
KindHandles ==
  {"resource", "service", "ResourceAbstract", "DatabaseResource", "MailerService",
   "ResourceRegistry", "ServiceRegistry"}
IdentityHandles == {"database", "DatabaseResource", "mailer", "MailerService", "apple"}
LookupLists ==
  {l \in ClassLists : \A j \in 1..Len(l) : l[j] \in {"DatabaseResource", "CacheResource"}}

\* The registrar with its lookups.
NextLookup ==
  \/ \E r \in RegistrarIds : NewRegistrar(r) /\ OwnOptions(r) /\ UNCHANGED namevars
  \/ \E r \in RegistrarIds, resources \in LookupLists :
       NewBootstrap(r, resources) /\ DefaultOptions(r) /\ UNCHANGED namevars
  \/ \E r \in RegistrarIds, rc \in {"ResourceRegistry", "ServiceRegistry"} :
       RegisterRegistry(r, rc) /\ UNCHANGED <<optvars, namevars>>
  \/ \E r \in RegistrarIds, kind \in Kinds, klass \in {"DatabaseResource", "MailerService"} :
       RegistryRegister(r, kind, klass) /\ UNCHANGED <<optvars, namevars>>
  \/ \E r \in RegistrarIds, kind \in Kinds, x \in IdentityHandles :
       RegistryGet(r, kind, x) /\ UNCHANGED <<optvars, namevars>>
  \/ \E r \in RegistrarIds, k \in KindHandles, x \in IdentityHandles :
       RegistrarGet(r, k, x) /\ UNCHANGED <<optvars, namevars>>
  \/ InitializeReturns /\ UNCHANGED <<optvars, namevars>>
  \/ InitializeRaises /\ UNCHANGED <<optvars, namevars>>
  \/ \E r \in RegistrarIds, kind \in Kinds, x \in IdentityHandles :
       HasRegistered(r, kind, x) /\ UNCHANGED <<optvars, namevars>>
  \/ \E r \in RegistrarIds, kind \in Kinds, x \in IdentityHandles :
       HasInitialized(r, kind, x) /\ UNCHANGED <<optvars, namevars>>
  \/ \E r \in RegistrarIds, k \in KindHandles :
       HasRegistry(r, k) /\ UNCHANGED <<optvars, namevars>>
  \/ \E r \in RegistrarIds, k \in KindHandles :
       GetRegistry(r, k) /\ UNCHANGED <<optvars, namevars>>
  \/ Return /\ UNCHANGED <<optvars, namevars>>

SpecLookup == Init /\ [][NextLookup]_vars

-----------------------------------------------------------------------------
(* Options: Registrar.options is a dict kind -> identity -> options, read    *)
(* live by registries and registrants.                                     *)

Bootstraps == {"r1", "r2"}
\* Registries constructed on their own, Registry(registrar=None), are kept
\* under this key of registrars.
Detached == "none"
\* Dict objects the calling program creates and passes as options.
CallerDicts == {"o1"}

HostX == [host |-> "x"]
\* The options of one kind: identity -> options.
KindOptionValues == {EmptyDict, [database |-> HostX]}
\* Whole option structures: kind -> identity -> options.
WholeOptionValues == {EmptyDict, [resource |-> [database |-> HostX]]}

\* Registrar.get_registry_options.
get_registry_options(r, kind_or_type) ==
  LET kind == Resolve_kind(kind_or_type)
  IN IF kind \in DOMAIN dicts[options[r]] THEN dicts[options[r]][kind] ELSE EmptyDict

\* A variant of set_registry_options that rebuilds the options with the one
\* kind only.
set_registry_options_only(r, kind_or_type, o) ==
  [dicts EXCEPT ![options[r]] = Put(EmptyDict, Resolve_kind(kind_or_type), o)]

\* Registrar.set_registry_options: self.options[kind] = options, in place.
set_registry_options(r, kind_or_type, o) ==
  [dicts EXCEPT ![options[r]] = Put(@, Resolve_kind(kind_or_type), o)]

\* A variant of set_options that updates the current dict with the entries of
\* the new one.
set_options_merging(r, obj, content) ==
  LET new == IF obj \in DOMAIN dicts THEN dicts[obj] ELSE content
      old == dicts[options[r]]
  IN [options |-> options,
      dicts |-> [Put(dicts, obj, new) EXCEPT ![options[r]] =
                   [k \in DOMAIN old \cup DOMAIN new |->
                      IF k \in DOMAIN new THEN new[k] ELSE old[k]]]]

\* Registrar.set_options: self.options = options. The argument is a dict
\* object: one the program already holds, or a new one with the content given.
set_options(r, obj, content) ==
  [options |-> Put(options, r, obj),
   dicts |-> IF obj \in DOMAIN dicts THEN dicts ELSE Put(dicts, obj, content)]

\* Registry.get_options, for the registry a registrar (or nobody) holds
\* under kind.
get_options(owner, kind) ==
  IF owner = Detached THEN EmptyDict
  ELSE get_registry_options(owner, Registry_kind(registrars[owner].registries[kind].klass))

\* A variant of get_registrant_options that looks the options up under the
\* argument as given, class or string.
get_registrant_options_unresolved(owner, kind, ident_or_type) ==
  IF ident_or_type \in DOMAIN get_options(owner, kind)
  THEN get_options(owner, kind)[ident_or_type]
  ELSE EmptyDict

\* Registry.get_registrant_options: get_options().get(identity, {}).
get_registrant_options(owner, kind, ident_or_type) ==
  IF Resolve_identity(ident_or_type) \in DOMAIN get_options(owner, kind)
  THEN get_options(owner, kind)[Resolve_identity(ident_or_type)]
  ELSE EmptyDict

\* instance.options of instance n: ResourceAbstract.options() looks up
\* self.identity(), the RegistrantAbstract.options property self.__class__.
instance_options(n) ==
  get_registrant_options(
    heap[n].registry[1], heap[n].registry[2],
    IF "ResourceAbstract" \in RegistrantTable[heap[n].klass].mro
    THEN RegistrantTable[heap[n].klass].identity
    ELSE heap[n].klass)

\* Bootstrap(resources=..., options=obj): the dataclass __init__ of Registrar
\* stores the dict object it is given.
NewBootstrapWith(r, resources, obj, content) ==
  /\ NewBootstrap(r, resources)
  /\ options' = IF r \in DOMAIN registrars' THEN Put(options, r, obj) ELSE options
  /\ dicts' = IF r \in DOMAIN registrars' /\ obj \notin DOMAIN dicts
              THEN Put(dicts, obj, content)
              ELSE dicts

\* ResourceRegistry() constructed by the program itself: registrar is None.
NewDetachedRegistry ==
  /\ Idle
  /\ Detached \notin DOMAIN registrars
  /\ registrars' = Put(registrars, Detached,
                       [bootstrap |-> FALSE,
                        registries |-> [k \in {"resource"} |-> NewRegistry("ResourceRegistry")]])
  /\ registry_objects' = registry_objects + 1
  /\ last' = Call("Registry", "ResourceRegistry", "ok", 0)
  /\ UNCHANGED <<heap, stack>>

SetRegistryOptions(r, kind_or_type, o) ==
  /\ Idle
  /\ r \in DOMAIN options
  /\ dicts' = set_registry_options(r, kind_or_type, o)
  /\ last' = Answer("set_registry_options", <<r, kind_or_type>>, "ok", o)
  /\ UNCHANGED <<registrars, heap, stack, registry_objects, options>>

SetOptions(r, obj, content) ==
  /\ Idle
  /\ r \in DOMAIN options
  /\ options' = set_options(r, obj, content).options
  /\ dicts' = set_options(r, obj, content).dicts
  /\ last' = Answer("set_options", <<r, obj>>, "ok", dicts'[obj])
  /\ UNCHANGED <<registrars, heap, stack, registry_objects>>

GetRegistryOptions(r, kind_or_type) ==
  /\ Idle
  /\ r \in DOMAIN options
  /\ last' = Answer("get_registry_options", <<r, kind_or_type>>, "ok",
                    get_registry_options(r, kind_or_type))
  /\ UNCHANGED <<registrars, heap, stack, registry_objects, options, dicts>>

\* registry.get_registrant_options(x) on the registry held under kind.
GetRegistrantOptions(owner, kind, x) ==
  /\ Idle
  /\ owner \in DOMAIN registrars
  /\ kind \in DOMAIN registrars[owner].registries
  /\ last' = Answer("get_registrant_options", <<owner, kind, x>>, "ok",
                    get_registrant_options(owner, kind, x))
  /\ UNCHANGED <<registrars, heap, stack, registry_objects, options, dicts>>

\* instance.options() called by user code.
InstanceOptions(n) ==
  /\ Idle
  /\ n \in Held \cup Running
  /\ last' = [Answer("options", "none", "ok", instance_options(n)) EXCEPT !.value = n]
  /\ UNCHANGED <<registrars, heap, stack, registry_objects, options, dicts>>

OptionKinds == {"resource", "service", "ResourceAbstract"}
OptionLists == {<<"DatabaseResource">>}

\* Bootstraps and a detached registry with their options.
NextOptions ==
  \/ \E r \in Bootstraps, resources \in OptionLists :
       NewBootstrap(r, resources) /\ DefaultOptions(r) /\ UNCHANGED namevars
  \/ \E r \in Bootstraps, resources \in OptionLists, obj \in CallerDicts,
        content \in WholeOptionValues :
       NewBootstrapWith(r, resources, obj, content) /\ UNCHANGED namevars
  \/ NewDetachedRegistry /\ UNCHANGED <<optvars, namevars>>
  \/ \E r \in Bootstraps :
       RegistryGet(r, "resource", "database") /\ UNCHANGED <<optvars, namevars>>
  \/ InitializeReturns /\ UNCHANGED <<optvars, namevars>>
  \/ \E r \in Bootstraps, k \in OptionKinds, o \in KindOptionValues :
       SetRegistryOptions(r, k, o) /\ UNCHANGED namevars
  \/ \E r \in Bootstraps, obj \in CallerDicts, content \in WholeOptionValues :
       SetOptions(r, obj, content) /\ UNCHANGED namevars
  \/ \E r \in Bootstraps, k \in OptionKinds :
       GetRegistryOptions(r, k) /\ UNCHANGED namevars
  \/ \E owner \in Bootstraps \cup {Detached}, x \in {"database", "DatabaseResource"} :
       GetRegistrantOptions(owner, "resource", x) /\ UNCHANGED namevars
  \/ \E n \in 1..MaxInstances : InstanceOptions(n) /\ UNCHANGED namevars
  \/ Return /\ UNCHANGED <<optvars, namevars>>

SpecOptions == Init /\ [][NextOptions]_vars

-----------------------------------------------------------------------------
(* The initialization window entered again: a second __init__ on an        *)
(* instance, or its _initialization_context() opened by user code.         *)

\* with inst._initialization_context(): pass -- the instance afterwards and
\* how the statement ended.
initialization_context(inst) ==
  IF inst.is_initialized THEN [inst |-> inst, outcome |-> RuntimeError]
  ELSE IF inst.is_initializing THEN [inst |-> inst, outcome |-> RuntimeError]
  ELSE [inst |-> [inst EXCEPT !.is_initializing = FALSE, !.is_initialized = TRUE],
        outcome |-> "ok"]

\* inst.__init__(registry) on an existing instance: self.registry is assigned
\* first, then the context is entered and, if it opens, initialize() runs.
init_again(inst, registry) ==
  LET bound == [inst EXCEPT !.registry = registry]
  IN IF initialization_context(bound).outcome # "ok"
     THEN [inst |-> bound, outcome |-> RuntimeError]
     ELSE [inst |-> [Completed(bound) EXCEPT !.body_runs = IF @ < 2 THEN @ + 1 ELSE @],
           outcome |-> "ok"]

EnterContext(n) ==
  /\ Idle
  /\ n \in Held \cup Running
  /\ heap' = [heap EXCEPT ![n] = initialization_context(@).inst]
  /\ last' = Call("_initialization_context", "none",
                  initialization_context(heap[n]).outcome, n)
  /\ UNCHANGED <<registrars, stack, registry_objects>>

InitAgain(n, r, kind) ==
  /\ Idle
  /\ n \in Held \cup Running
  /\ r \in DOMAIN registrars
  /\ kind \in DOMAIN registrars[r].registries
  /\ heap' = [heap EXCEPT ![n] = init_again(@, <<r, kind>>).inst]
  /\ last' = Call("__init__", <<r, kind>>, init_again(heap[n], <<r, kind>>).outcome, n)
  /\ UNCHANGED <<registrars, stack, registry_objects>>

\* One Bootstrap with a second registry, and instances constructed again.
NextLifecycle ==
  \/ \E r \in RegistrarIds :
       NewBootstrap(r, <<"DatabaseResource">>) /\ DefaultOptions(r) /\ UNCHANGED namevars
  \/ \E r \in RegistrarIds :
       RegisterRegistry(r, "ServiceRegistry") /\ UNCHANGED <<optvars, namevars>>
  \/ \E r \in RegistrarIds, x \in {"database", "DatabaseResource"} :
       RegistryGet(r, "resource", x) /\ UNCHANGED <<optvars, namevars>>
  \/ InitializeReturns /\ UNCHANGED <<optvars, namevars>>
  \/ InitializeRaises /\ UNCHANGED <<optvars, namevars>>
  \/ \E n \in 1..MaxInstances : CallInitialize(n) /\ UNCHANGED <<optvars, namevars>>
  \/ \E n \in 1..MaxInstances : EnterContext(n) /\ UNCHANGED <<optvars, namevars>>
  \/ \E n \in 1..MaxInstances, r \in RegistrarIds, kind \in Kinds :
       InitAgain(n, r, kind) /\ UNCHANGED <<optvars, namevars>>
  \/ Return /\ UNCHANGED <<optvars, namevars>>

SpecLifecycle == Init /\ [][NextLifecycle]_vars

-----------------------------------------------------------------------------
(* Two Bootstraps side by side.                                            *)

PairLists == {<<"DatabaseResource">>, <<"DatabaseResource", "CacheResource">>}
PairClasses == {"DatabaseResource", "CacheResource"}
PairHandles == {"database", "DatabaseResource", "cache"}

NextPair ==
  \/ \E r \in Bootstraps, resources \in PairLists :
       NewBootstrap(r, resources) /\ DefaultOptions(r) /\ UNCHANGED namevars
  \/ \E r \in Bootstraps, klass \in PairClasses :
       RegistryRegister(r, "resource", klass) /\ UNCHANGED <<optvars, namevars>>
  \/ \E r \in Bootstraps, klass \in PairClasses \cup {"MailerService"} :
       RegistrarRegister(r, <<klass>>) /\ UNCHANGED <<optvars, namevars>>
  \/ \E r \in Bootstraps, x \in PairHandles :
       RegistryGet(r, "resource", x) /\ UNCHANGED <<optvars, namevars>>
  \/ \E r \in Bootstraps, x \in PairHandles :
       GetResource(r, x) /\ UNCHANGED <<optvars, namevars>>
  \/ InitializeReturns /\ UNCHANGED <<optvars, namevars>>
  \/ InitializeRaises /\ UNCHANGED <<optvars, namevars>>
  \/ Return /\ UNCHANGED <<optvars, namevars>>

SpecPair == Init /\ [][NextPair]_vars

-----------------------------------------------------------------------------
(* Identity derivation: snake_case and ResourceAbstract.identity.  A string  *)
(* is a sequence of one-character strings.                                   *)

MaxStem == 3        \* characters in the free part of a class name

Uppers == <<"A", "B", "C", "D", "E", "F", "G", "H", "I", "J", "K", "L", "M", "N", "O", "P", "Q", "R", "S", "T", "U", "V", "W", "X", "Y", "Z">>
Lowers == <<"a", "b", "c", "d", "e", "f", "g", "h", "i", "j", "k", "l", "m", "n", "o", "p", "q", "r", "s", "t", "u", "v", "w", "x", "y", "z">>
Digits == <<"0", "1", "2", "3", "4", "5", "6", "7", "8", "9">>

Range(f) == {f[i] : i \in DOMAIN f}

\* The character classes [A-Z], [a-z] and [a-z\d] of the two patterns.
IsUpper(c) == c \in Range(Uppers)
IsLower(c) == c \in Range(Lowers)
IsLowerOrDigit(c) == c \in Range(Lowers) \cup Range(Digits)

\* str.lower() on one character.
lower(c) ==
  IF IsUpper(c) THEN Lowers[CHOOSE i \in DOMAIN Uppers : Uppers[i] = c] ELSE c

\* re.sub(r"([A-Z]+)([A-Z][a-z])", r'\1_\2', word): an underscore goes before
\* the last capital of a run of two or more capitals that a lower-case
\* letter follows.
sub_capitals(word) ==
  LET f[i \in 0..Len(word)] ==
        IF i = 0 THEN <<>>
        ELSE f[i - 1] \o
             (IF /\ i > 1
                 /\ i < Len(word)
                 /\ IsUpper(word[i - 1])
                 /\ IsUpper(word[i])
                 /\ IsLower(word[i + 1])
              THEN <<"_", word[i]>>
              ELSE <<word[i]>>)
  IN f[Len(word)]

\* re.sub(r"([a-z\d])([A-Z])", r'\1_\2', word): an underscore goes between a
\* lower-case letter or digit and the capital after it.
sub_boundary(word) ==
  LET f[i \in 0..Len(word)] ==
        IF i = 0 THEN <<>>
        ELSE f[i - 1] \o
             (IF i > 1 /\ IsLowerOrDigit(word[i - 1]) /\ IsUpper(word[i])
              THEN <<"_", word[i]>>
              ELSE <<word[i]>>)
  IN f[Len(word)]

snake_case(word) ==
  LET w == sub_boundary(sub_capitals(word))
  IN [i \in 1..Len(w) |-> lower(IF w[i] = "-" THEN "_" ELSE w[i])]

\* str.endswith.
endswith(word, suffix) ==
  /\ Len(word) >= Len(suffix)
  /\ SubSeq(word, Len(word) - Len(suffix) + 1, Len(word)) = suffix

\* The kind strings a class may return from kind(), spelled out.
KindSpelling == [resource |-> <<"r", "e", "s", "o", "u", "r", "c", "e">>,
                 service |-> <<"s", "e", "r", "v", "i", "c", "e">>]

\* A variant of ResourceAbstract.identity that keeps the suffix.
ResourceAbstract_identity_unstripped(name, kind) == snake_case(name)

\* ResourceAbstract.identity for a class called name whose kind() is kind.
ResourceAbstract_identity(name, kind) ==
  LET kind_suffix == <<"_">> \o KindSpelling[kind]
      class_name_snake == snake_case(name)
  IN IF endswith(class_name_snake, kind_suffix)
     THEN SubSeq(class_name_snake, 1, Len(class_name_snake) - Len(kind_suffix))
     ELSE class_name_snake

\* Class names: a free stem followed by one of the endings, and the names of
\* the resource classes of the tests.
StemChars == {"D", "B", "b", "2", "_", "-"}
Stems == UNION {[1..n -> StemChars] : n \in 0..MaxStem}
Endings == {<<>>, <<"R", "e", "s", "o", "u", "r", "c", "e">>, <<"_", "R", "e", "s", "o", "u", "r", "c", "e">>, <<"_", "r", "e", "s", "o", "u", "r", "c", "e">>, <<"R", "E", "S", "O", "U", "R", "C", "E">>, <<"R", "e", "s", "o", "u", "r", "c">>, <<"R", "e", "s", "o", "u", "r", "c", "e", "X">>, <<"S", "e", "r", "v", "i", "c", "e">>}
TestClassNames == {<<"D", "a", "t", "a", "b", "a", "s", "e", "R", "e", "s", "o", "u", "r", "c", "e">>,
                   <<"D", "a", "t", "a", "b", "a", "s", "e">>,
                   <<"C", "a", "c", "h", "e", "R", "e", "s", "o", "u", "r", "c", "e">>,
                   <<"H", "T", "T", "P", "R", "e", "s", "o", "u", "r", "c", "e">>}
ClassNames == {stem \o ending : stem \in Stems, ending \in Endings} \cup TestClassNames

InitIdentity ==
  /\ registrars = EmptyDict
  /\ heap = <<>>
  /\ stack = <<>>
  /\ registry_objects = 0
  /\ last = NoCall
  /\ options = EmptyDict
  /\ dicts = [d \in {DefaultDict} |-> EmptyDict]
  /\ class_name \in ClassNames
  /\ class_kind \in DOMAIN KindSpelling
  /\ derived = NotDerived

\* cls.identity() is evaluated for the class.
DeriveIdentity ==
  /\ ~derived.done
  /\ derived' = [done |-> TRUE,
                 snake |-> snake_case(class_name),
                 identity |-> ResourceAbstract_identity(class_name, class_kind)]
  /\ UNCHANGED <<class_name, class_kind>>

NextIdentity ==
  \/ DeriveIdentity /\ UNCHANGED <<corevars, optvars>>

SpecIdentity == InitIdentity /\ [][NextIdentity]_vars

-----------------------------------------------------------------------------
(* Properties.                                                             *)

\* The registry that holds instance n, and the identity it was built for.
RegistryOf(n) == registrars[heap[n].registry[1]].registries[heap[n].registry[2]]
IdentityOf(n) == RegistrantTable[heap[n].klass].identity
SameSlot(n, m) ==
  /\ heap[n].registry = heap[m].registry
  /\ IdentityOf(n) = IdentityOf(m)

\* Instances that exist: under construction, or constructed and returned.
Live == {n \in 1..Len(heap) : heap[n].is_initializing \/ heap[n].patched}

GetOps == {"get", "get_resource"}

\* C1: the first get of an identity constructs an instance and stores it in
\* initialized; every later get of that identity, in the same registry,
\* returns that same instance: no two different instances are ever returned
\* for one identity, and a get that returns hands out the cached one.
C1_EveryGetReturnsTheFirstInstance ==
  /\ \A n, m \in Held : SameSlot(n, m) => n = m
  /\ (last.op \in GetOps /\ last.outcome = "ok") =>
       /\ IdentityOf(last.value) \in DOMAIN RegistryOf(last.value).initialized
       /\ RegistryOf(last.value).initialized[IdentityOf(last.value)] = last.value

\* C2: at any time at most one instance exists per identity of a registry,
\* also while a get issued from inside initialize() runs during an outer
\* construction.
C2_AtMostOneInstancePerIdentity ==
  \A n, m \in Live : SameSlot(n, m) => n = m

\* What C3 requires of a get step on an identity that is not registered.
NotRegisteredError ==
  /\ last'.outcome = ValueError
  /\ last'.value = 0
  /\ UNCHANGED <<registrars, heap, stack>>

Unregistered(r, kind, x) ==
  Resolve_identity(x) \notin DOMAIN registrars[r].registries[kind].registered

C5_DecoratedRunsOnlyWhileInitializing ==
  last.op = "decorated" =>
    /\ (last.outcome = "ok") <=> heap[last.value].is_initializing
    /\ ~heap[last.value].is_initializing => last.outcome = RuntimeError
\* The type and kind checks of a registry, stated on the class tables.
FitsType(registry_klass, klass) ==
  RegistryTable[registry_klass].registrant_type \in RegistrantTable[klass].mro
FitsKind(registry_klass, klass) ==
  RegistrantTable[klass].kind = Registry_kind(registry_klass)

\* C6: every registered class has the kind of its registry and is the
\* registry's element type or a subtype of it; Registry.register of a class
\* that fails the type check raises TypeError, of one that fails the kind
\* check ValueError, and changes neither registered nor initialized.
C6_RegisteredClassesFitTheRegistry ==
  [][/\ \A r \in DOMAIN registrars' : \A k \in DOMAIN registrars'[r].registries :
          LET reg == registrars'[r].registries[k]
          IN \A i \in DOMAIN reg.registered :
               /\ FitsType(reg.klass, reg.registered[i])
               /\ FitsKind(reg.klass, reg.registered[i])
     /\ last'.op = "Registry.register" =>
          \A r \in RegistrarIds, kind \in Kinds :
            LET klass == last'.arg
            IN RegistryRegister(r, kind, klass) =>
                 LET rk == registrars[r].registries[kind].klass
                 IN /\ ~FitsType(rk, klass) =>
                         (last'.outcome = TypeError /\ UNCHANGED registrars)
                    /\ (FitsType(rk, klass) /\ ~FitsKind(rk, klass)) =>
                         (last'.outcome = ValueError /\ UNCHANGED registrars)]_vars

\* C6 witness: a class of the registry's element type was rejected for its
\* kind while the registry holds a registered class.
C6_Witness ==
  /\ last.op = "Registry.register"
  /\ last.arg = "ServiceLikeResource"
  /\ last.outcome = ValueError
  /\ \E r \in DOMAIN registrars :
       /\ "resource" \in DOMAIN registrars[r].registries
       /\ registrars[r].registries["resource"].registered # EmptyDict

IdentityPresent(r, kind, klass) ==
  RegistrantTable[klass].identity \in DOMAIN registrars[r].registries[kind].registered

\* C7 as claimed: Registry.register of any class whose identity is already
\* registered raises no error and changes nothing.
C7_ReRegisterNeverRaises ==
  [][last'.op = "Registry.register" =>
       \A r \in RegistrarIds, kind \in Kinds :
         LET klass == last'.arg
         IN (RegistryRegister(r, kind, klass) /\ IdentityPresent(r, kind, klass))
              => (last'.outcome = "ok" /\ UNCHANGED registrars)]_vars

\* C7 as amended: Registry.register of a class whose identity is already
\* registered changes neither registered nor initialized, and raises no error
\* when the class passes the registry's type and kind checks.
C7_ReRegisterChangesNothing ==
  [][last'.op = "Registry.register" =>
       \A r \in RegistrarIds, kind \in Kinds :
         LET klass == last'.arg
         IN (RegistryRegister(r, kind, klass) /\ IdentityPresent(r, kind, klass))
              => /\ UNCHANGED <<registrars, heap>>
                 /\ LET rk == registrars[r].registries[kind].klass
                    IN (FitsType(rk, klass) /\ FitsKind(rk, klass))
                         => last'.outcome = "ok"]_vars

\* C7 witness: another class with a registered identity was registered
\* without error and the first class is still the registered one.
C7_Witness ==
  /\ last.op = "Registry.register"
  /\ last.arg = "ReplicaDatabase"
  /\ last.outcome = "ok"
  /\ \E r \in DOMAIN registrars :
       /\ "resource" \in DOMAIN registrars[r].registries
       /\ "database" \in DOMAIN registrars[r].registries["resource"].registered
       /\ registrars[r].registries["resource"].registered["database"] = "DatabaseResource"

\* The type get_resource(x) promises: x for a class, ResourceAbstract for a string.
Promised(x) == IF x \in StrLiterals THEN "ResourceAbstract" ELSE x

\* C8: get_resource(x) returns only an instance of the expected type; when
\* the instance held under the identity is not one it raises TypeError, and
\* when it is one the call returns that instance; apart from an error raised
\* by initialize() itself, the call fails otherwise only for an identity that
\* is not registered.
C8_GetResourceChecksTheType ==
  /\ (last.op = "get_resource" /\ last.outcome \in {"ok", TypeError}) =>
       \E r \in DOMAIN registrars :
         /\ registrars[r].bootstrap
         /\ LET reg == registrars[r].registries["resource"]
                i == Resolve_identity(last.arg)
            IN /\ i \in DOMAIN reg.initialized
               /\ IF Promised(last.arg) \in
                       RegistrantTable[heap[reg.initialized[i]].klass].mro
                  THEN last.outcome = "ok" /\ last.value = reg.initialized[i]
                  ELSE last.outcome = TypeError /\ last.value = 0
  /\ (last.op = "get_resource" /\ last.outcome \notin {"ok", TypeError, "pending", "raised"}) =>
       /\ last.outcome = ValueError
       /\ \E r \in DOMAIN registrars :
            /\ registrars[r].bootstrap
            /\ Resolve_identity(last.arg) \notin
                 DOMAIN registrars[r].registries["resource"].registered

\* C8 witness: get_resource for a class was refused because the instance held
\* under that identity is of another class registered first.
C8_Witness ==
  /\ last.op = "get_resource"
  /\ last.arg = "ReplicaDatabase"
  /\ last.outcome = TypeError
  /\ \E n \in Held : heap[n].klass = "DatabaseResource"

\* Whether the registry that Registrar.register routes klass to accepts it.
Routable(registries, klass) ==
  /\ RegistrantTable[klass].kind \in DOMAIN registries
  /\ FitsType(registries[RegistrantTable[klass].kind].klass, klass)

RegistriesHeld ==
  {rk \in RegistrarIds \X Kinds :
     /\ rk[1] \in DOMAIN registrars
     /\ rk[2] \in DOMAIN registrars[rk[1]].registries}

\* C10: a registrar holds one registry object per kind, stored under the
\* kind() of its class; register_registry for a kind that already has a
\* registry creates none and leaves the existing one as it is.
C10_OneRegistryPerKind ==
  [][/\ \A rk \in RegistriesHeld' :
          Registry_kind(registrars'[rk[1]].registries[rk[2]].klass) = rk[2]
     /\ registry_objects' = Cardinality(RegistriesHeld')
     /\ last'.op = "register_registry" =>
          \A r \in RegistrarIds :
            LET rc == last'.arg
            IN (/\ RegisterRegistry(r, rc)
                /\ rc \in RegistryClasses
                /\ Registry_kind(rc) \in DOMAIN registrars[r].registries)
                 => /\ UNCHANGED <<registrars, registry_objects, heap>>
                    /\ last'.outcome = "ok"]_vars

\* C10 witness: register_registry of another registry class for a kind whose
\* registry already holds a registered class and a constructed instance.
C10_Witness ==
  /\ last.op = "register_registry"
  /\ last.arg = "AltResourceRegistry"
  /\ last.outcome = "ok"
  /\ \E r \in DOMAIN registrars :
       /\ "resource" \in DOMAIN registrars[r].registries
       /\ registrars[r].registries["resource"].klass = "ResourceRegistry"
       /\ registrars[r].registries["resource"].initialized # EmptyDict
\* The kind of the registrant type a registry class manages (the generic
\* argument of Registry[...]).
ManagedKind(registry_klass) ==
  RegistrantTable[RegistryTable[registry_klass].registrant_type].kind

\* C11: register_registry rejects with ValueError every registry class whose
\* declared kind() differs from the kind of the registrant type it manages,
\* so every registry a registrar holds manages registrants of the kind it is
\* stored under.
C11_MismatchedRegistryRejected ==
  /\ \A rk \in RegistriesHeld :
       ManagedKind(registrars[rk[1]].registries[rk[2]].klass) = rk[2]
  /\ (/\ last.op = "register_registry"
      /\ last.arg \in RegistryClasses
      /\ ManagedKind(last.arg) # Registry_kind(last.arg))
       => last.outcome = ValueError
\* C12: get_registry(k) and Registrar.get(k, i) for a kind without a registry
\* raise KeyError and change no registry and no instance; for a kind with a
\* registry, Registrar.get(k, i) is a get(i) of that registry, and
\* get_registry(k) answers with that registry.
C12_UnknownKindIsKeyError ==
  [][/\ last'.op = "get_registry" =>
          \A r \in RegistrarIds :
            LET k == last'.arg
            IN GetRegistry(r, k) =>
                 /\ UNCHANGED <<registrars, heap, stack, registry_objects>>
                 /\ IF Resolve_kind(k) \in DOMAIN registrars[r].registries
                    THEN /\ last'.outcome = "ok"
                         /\ last'.result = <<r, Resolve_kind(k)>>
                    ELSE last'.outcome = KeyError
     /\ last'.op \in {"get", "Registrar.get"} =>
          \A r \in RegistrarIds, k \in KindHandles :
            LET i == last'.arg
            IN RegistrarGet(r, k, i) =>
                 IF Resolve_kind(k) \in DOMAIN registrars[r].registries
                 THEN RegistryGet(r, Resolve_kind(k), i)
                 ELSE /\ last'.outcome = KeyError
                      /\ last'.value = 0
                      /\ UNCHANGED <<registrars, heap, stack, registry_objects>>]_vars

\* C12 witness: get_registry for a kind without a registry raised KeyError
\* while the registrar holds a registry with a constructed instance.
C12_Witness ==
  /\ last.op = "get_registry"
  /\ last.outcome = KeyError
  /\ \E r \in DOMAIN registrars :
       /\ "resource" \in DOMAIN registrars[r].registries
       /\ registrars[r].registries["resource"].initialized # EmptyDict
\* The entry of a registrar's current options for a kind string.
OptionsEntry(r, kind) ==
  IF kind \in DOMAIN dicts[options[r]] THEN dicts[options[r]][kind] ELSE EmptyDict

\* The kind string a kind argument stands for.
KindString(k) ==
  IF k \in DOMAIN RegistrantTable THEN RegistrantTable[k].kind
  ELSE IF k \in DOMAIN RegistryTable THEN Registry_kind(k)
  ELSE k

\* C13: after set_registry_options(k, o), get_registry_options(k) is o and
\* the options of every other kind are as before; get_registry_options
\* returns the entry of its kind, and the empty mapping when there is none.
C13_RegistryOptionsRoundTrip ==
  [][/\ last'.op = "set_registry_options" =>
          \A r \in Bootstraps, k \in OptionKinds, o \in KindOptionValues :
            SetRegistryOptions(r, k, o) =>
              /\ get_registry_options(r, k)' = o
              /\ \A k2 \in Kinds \ {KindString(k)} :
                   get_registry_options(r, k2)' = get_registry_options(r, k2)
     /\ last'.op = "get_registry_options" =>
          \A r \in Bootstraps, k \in OptionKinds :
            GetRegistryOptions(r, k) =>
              /\ last'.result = OptionsEntry(r, KindString(k))
              /\ KindString(k) \notin DOMAIN dicts[options[r]]
                   => last'.result = EmptyDict]_vars

\* C13 witness: the options of kind "resource" were set to a non-empty value
\* while the same options hold a non-empty entry for kind "service".
C13_Witness ==
  /\ last.op = "set_registry_options"
  /\ KindString(last.arg[2]) = "resource"
  /\ last.result # EmptyDict
  /\ OptionsEntry(last.arg[1], "service") # EmptyDict

\* The current options[kind][identity] of a registry's registrar; the empty
\* mapping without an entry or without a registrar.
CurrentOptions(owner, kind, identity) ==
  IF owner = Detached THEN EmptyDict
  ELSE IF identity \in DOMAIN OptionsEntry(owner, kind)
  THEN OptionsEntry(owner, kind)[identity]
  ELSE EmptyDict

CurrentOptionsOf(n) ==
  CurrentOptions(heap[n].registry[1], heap[n].registry[2],
                 RegistrantTable[heap[n].klass].identity)

\* C14: in every state the options of a registrant instance, and what
\* options() and get_registrant_options answer, are the current
\* options[kind][identity] of the registrar that owns the registry, and the
\* empty mapping when there is no such entry or no registrar.
C14_InstanceOptionsAreLive ==
  /\ \A n \in 1..Len(heap) : instance_options(n) = CurrentOptionsOf(n)
  /\ last.op = "options" => last.result = CurrentOptionsOf(last.value)
  /\ last.op = "get_registrant_options" =>
       last.result =
         CurrentOptions(last.arg[1], last.arg[2],
                        IF last.arg[3] \in DOMAIN RegistrantTable
                        THEN RegistrantTable[last.arg[3]].identity
                        ELSE last.arg[3])

\* C14 witness: options were set on a registrar that had already constructed
\* an instance (setting options constructs none), and the instance now sees
\* a non-empty value.
C14_Witness ==
  /\ last.op \in {"set_registry_options", "set_options"}
  /\ \E n \in Held :
       /\ heap[n].registry[1] = last.arg[1]
       /\ instance_options(n) = HostX

\* C15: set_options(o) replaces the whole structure: afterwards
\* get_registry_options(k) is o[k] for a kind of o and the empty mapping for
\* any other kind; no registry and no instance changes.
C15_SetOptionsReplacesAll ==
  [][last'.op = "set_options" =>
       \A r \in Bootstraps, obj \in CallerDicts, content \in WholeOptionValues :
         SetOptions(r, obj, content) =>
           /\ \A k \in Kinds :
                get_registry_options(r, k)' =
                  IF k \in DOMAIN dicts'[obj] THEN dicts'[obj][k] ELSE EmptyDict
           /\ obj \notin DOMAIN dicts => dicts'[obj] = content
           /\ UNCHANGED <<registrars, heap, stack, registry_objects>>]_vars

\* C15 witness: the only registrar there is was given new options without a
\* "service" entry after a set_registry_options had made one in the options
\* it started with.
C15_Witness ==
  /\ last.op = "set_options"
  /\ "service" \notin DOMAIN last.result
  /\ DOMAIN options = {last.arg[1]}
  /\ "service" \in DOMAIN dicts[DefaultDict]
  /\ dicts[DefaultDict]["service"] # EmptyDict
\* The registry of kind "resource" a new Bootstrap r holds after the step.
NewResources(r) == registrars'[r].registries["resource"]

\* Every identity newly present in an initialized map was put there by the
\* return of a get for that identity on that registry; nothing registers
\* and constructs.
LazyConstruction ==
  /\ last'.op \in {"Registrar", "Bootstrap", "register_registry",
                   "Registry.register", "Registrar.register"} =>
       /\ heap' = heap
       /\ \A r \in DOMAIN registrars : \A k \in DOMAIN registrars[r].registries :
            registrars'[r].registries[k].initialized =
              registrars[r].registries[k].initialized
  /\ \A r \in DOMAIN registrars' : \A k \in DOMAIN registrars'[r].registries :
       \A i \in DOMAIN registrars'[r].registries[k].initialized :
         (\/ r \notin DOMAIN registrars
          \/ k \notin DOMAIN registrars[r].registries
          \/ i \notin DOMAIN registrars[r].registries[k].initialized)
           => /\ last'.op \in GetOps
              /\ last'.outcome \in {"ok", TypeError}
              /\ stack # <<>>
              /\ stack[Len(stack)].r = r
              /\ stack[Len(stack)].kind = k
              /\ stack[Len(stack)].ident = i
              /\ Resolve_identity(last'.arg) = i

\* C16 as claimed: after Bootstrap(resources=R) every class of R is the class
\* registered under its identity in the "resource" registry, whose
\* initialized map is empty; registering constructs nothing.
C16_EveryResourceIsRegistered ==
  [][/\ last'.op = "Bootstrap" =>
          \A r \in RegistrarIds, resources \in BootstrapLists :
            (NewBootstrap(r, resources) /\ last'.outcome = "ok") =>
              /\ "resource" \in DOMAIN registrars'[r].registries
              /\ NewResources(r).initialized = EmptyDict
              /\ \A j \in 1..Len(resources) :
                   /\ RegistrantTable[resources[j]].identity \in
                        DOMAIN NewResources(r).registered
                   /\ NewResources(r).registered[RegistrantTable[resources[j]].identity]
                        = resources[j]
     /\ LazyConstruction]_vars

\* C16 as amended: after Bootstrap(resources=R) has returned, the identity of
\* every class of R is registered in the "resource" registry, to the first
\* class of R that has this identity, and nothing else is registered; the
\* initialized map is empty; registering constructs nothing, and an identity
\* enters initialized only by a get for it.
C16_FirstResourcePerIdentityIsRegistered ==
  [][/\ last'.op = "Bootstrap" =>
          \A r \in RegistrarIds, resources \in BootstrapLists :
            (NewBootstrap(r, resources) /\ last'.outcome = "ok") =>
              /\ "resource" \in DOMAIN registrars'[r].registries
              /\ NewResources(r).initialized = EmptyDict
              /\ DOMAIN NewResources(r).registered =
                   {RegistrantTable[resources[j]].identity : j \in 1..Len(resources)}
              /\ \A j \in 1..Len(resources) :
                   (\A h \in 1..(j - 1) :
                      RegistrantTable[resources[h]].identity #
                        RegistrantTable[resources[j]].identity)
                     => NewResources(r).registered[RegistrantTable[resources[j]].identity]
                          = resources[j]
     /\ LazyConstruction]_vars

\* C16 witness: a Bootstrap was constructed from two resource classes and
\* holds both, with nothing initialized.
C16_Witness ==
  /\ last.op = "Bootstrap"
  /\ last.outcome = "ok"
  /\ \E r \in DOMAIN registrars :
       /\ registrars[r].bootstrap
       /\ DOMAIN registrars[r].registries["resource"].registered = {"database", "cache"}
       /\ registrars[r].registries["resource"].initialized = EmptyDict
\* C17: across every step a kind that has a registry keeps that registry, an
\* identity registered to a class stays registered to that class, and an
\* identity whose instance is in initialized keeps that same instance.
C17_NothingIsEvictedOrRebound ==
  [][\A r \in DOMAIN registrars :
       /\ r \in DOMAIN registrars'
       /\ \A k \in DOMAIN registrars[r].registries :
            /\ k \in DOMAIN registrars'[r].registries
            /\ registrars'[r].registries[k].klass = registrars[r].registries[k].klass
            /\ \A i \in DOMAIN registrars[r].registries[k].registered :
                 /\ i \in DOMAIN registrars'[r].registries[k].registered
                 /\ registrars'[r].registries[k].registered[i] =
                      registrars[r].registries[k].registered[i]
            /\ \A i \in DOMAIN registrars[r].registries[k].initialized :
                 /\ i \in DOMAIN registrars'[r].registries[k].initialized
                 /\ registrars'[r].registries[k].initialized[i] =
                      registrars[r].registries[k].initialized[i]]_vars
\* C18: opening the initialization window of an instance that is
\* initializing or initialized, by its context or by a second __init__,
\* raises RuntimeError, runs initialize() no further time and leaves the
\* instance as it was: flags and registry back-reference.
C18_ReentryIsRejectedWithoutEffect ==
  [][last'.op \in {"__init__", "_initialization_context"} =>
       \A n \in 1..Len(heap) :
         (last'.value = n /\ (heap[n].is_initializing \/ heap[n].is_initialized)) =>
           /\ last'.outcome = RuntimeError
           /\ heap'[n].body_runs = heap[n].body_runs
           /\ heap'[n].is_initializing = heap[n].is_initializing
           /\ heap'[n].is_initialized = heap[n].is_initialized
           /\ heap'[n].registry = heap[n].registry]_vars
\* The identity string a lookup argument stands for.
KeyOf(a) == IF a \in DOMAIN RegistrantTable THEN RegistrantTable[a].identity ELSE a

\* What Registry.get does for the identity string i on the registry r holds
\* under kind, whatever argument stood for i.
GetOfKey(r, kind, i) ==
  LET reg == registrars[r].registries[kind]
  IN IF i \notin DOMAIN reg.registered
     THEN /\ last'.outcome = ValueError
          /\ last'.value = 0
          /\ UNCHANGED <<registrars, heap, stack>>
     ELSE IF i \in DOMAIN reg.initialized
     THEN /\ last'.outcome = "ok"
          /\ last'.value = reg.initialized[i]
          /\ UNCHANGED <<registrars, heap, stack>>
     ELSE /\ last'.outcome = "pending"
          /\ last'.value = Len(heap) + 1
          /\ heap' = Append(heap, NewInstance(reg.registered[i], <<r, kind>>))
          /\ Len(stack') = Len(stack) + 1
          /\ stack'[Len(stack')].ident = i
          /\ SubSeq(stack', 1, Len(stack)) = stack
          /\ UNCHANGED registrars

\* C19: a class and the string it resolves to are interchangeable: get,
\* has_registered and has_initialized depend on their argument only through
\* its identity string, and has_registry, get_registry and Registrar.get on
\* their kind argument only through its kind string.
C19_HandlesAreInterchangeable ==
  [][/\ last'.op = "get" =>
          \A r \in RegistrarIds, kind \in Kinds :
            LET a == last'.arg
            IN /\ RegistryGet(r, kind, a) => GetOfKey(r, kind, KeyOf(a))
               /\ \A k \in KindHandles :
                    (RegistrarGet(r, k, a) /\ KindString(k) \in DOMAIN registrars[r].registries)
                      => GetOfKey(r, KindString(k), KeyOf(a))
     /\ last'.op = "Registrar.get" =>
          \A r \in RegistrarIds, k \in KindHandles :
            RegistrarGet(r, k, last'.arg) => RegistrarGet(r, KindString(k), last'.arg)
     /\ last'.op = "has_registered" =>
          \A r \in RegistrarIds, kind \in Kinds :
            HasRegistered(r, kind, last'.arg) =>
              last'.result =
                (KeyOf(last'.arg) \in DOMAIN registrars[r].registries[kind].registered)
     /\ last'.op = "has_initialized" =>
          \A r \in RegistrarIds, kind \in Kinds :
            HasInitialized(r, kind, last'.arg) =>
              last'.result =
                (KeyOf(last'.arg) \in DOMAIN registrars[r].registries[kind].initialized)
     /\ last'.op = "has_registry" =>
          \A r \in RegistrarIds :
            HasRegistry(r, last'.arg) =>
              last'.result = (KindString(last'.arg) \in DOMAIN registrars[r].registries)
     /\ last'.op = "get_registry" =>
          \A r \in RegistrarIds :
            GetRegistry(r, last'.arg) =>
              IF KindString(last'.arg) \in DOMAIN registrars[r].registries
              THEN last'.outcome = "ok" /\ last'.result = <<r, KindString(last'.arg)>>
              ELSE last'.outcome = KeyError]_vars

\* C19 witness: a get by class returned the instance held under the class's
\* identity string.
C19_Witness ==
  /\ last.op = "get"
  /\ last.arg = "DatabaseResource"
  /\ last.outcome = "ok"
  /\ \E r \in DOMAIN registrars :
       /\ "resource" \in DOMAIN registrars[r].registries
       /\ "database" \in DOMAIN registrars[r].registries["resource"].initialized
       /\ registrars[r].registries["resource"].initialized["database"] = last.value
ResourceSuffix == <<"_", "r", "e", "s", "o", "u", "r", "c", "e">>

AllRegistries ==
  {rk \in (DOMAIN registrars) \X Kinds : rk[2] \in DOMAIN registrars[rk[1]].registries}

RegistryAt(rk) == registrars[rk[1]].registries[rk[2]]

\* The first three parts of C21: the keys of initialized are keys of
\* registered, a cached instance is an instance of the class registered under
\* its key, and a class is registered under its own identity.
MapsAgree ==
  \A rk \in AllRegistries :
    /\ DOMAIN RegistryAt(rk).initialized \subseteq DOMAIN RegistryAt(rk).registered
    /\ \A i \in DOMAIN RegistryAt(rk).initialized :
         IsSubclass(heap[RegistryAt(rk).initialized[i]].klass, RegistryAt(rk).registered[i])
    /\ \A i \in DOMAIN RegistryAt(rk).registered :
         RegistrantTable[RegistryAt(rk).registered[i]].identity = i

\* C21: in every reachable state of every registry, the keys of initialized
\* are keys of registered, initialized[i] is an instance of registered[i],
\* registered[i].identity() = i, and the registry back-reference of every
\* cached instance is the registry that caches it.
C21_RegistryMapsAreConsistent ==
  /\ MapsAgree
  /\ \A rk \in AllRegistries :
       \A i \in DOMAIN RegistryAt(rk).initialized :
         heap[RegistryAt(rk).initialized[i]].registry = rk
\* An instance whose initialize() raised: the window is closed and __init__
\* never reached the line that replaces initialize.
HasFailed(inst) == ~inst.is_initializing /\ ~inst.patched

\* The instances the registries cache, after the step.
CachedAfter ==
  {n \in 1..Len(heap') :
     \E r \in DOMAIN registrars' : \E k \in DOMAIN registrars'[r].registries :
       \E i \in DOMAIN registrars'[r].registries[k].initialized :
         registrars'[r].registries[k].initialized[i] = n}

C23_DefaultOptionsAreIndependent ==
  [][last'.op = "set_registry_options" =>
       \A r \in Bootstraps, k \in OptionKinds, o \in KindOptionValues :
         SetRegistryOptions(r, k, o) =>
           \A other \in Bootstraps \ {r} :
             (/\ other \in DOMAIN options
              /\ options[r] = DefaultDict
              /\ options[other] = DefaultDict) =>
               /\ \A k2 \in Kinds :
                    get_registry_options(other, k2)' = get_registry_options(other, k2)
               /\ \A n \in 1..MaxInstances :
                    (n <= Len(heap) /\ heap[n].registry[1] = other) =>
                      instance_options(n)' = instance_options(n)]_vars
\* A construction in progress for the same identity of the same registry.
SameTarget(f, g) == f.r = g.r /\ f.kind = g.kind /\ f.ident = g.ident

BecomesInitialized(n) ==
  /\ heap'[n].is_initialized
  /\ n <= Len(heap) => ~heap[n].is_initialized

\* C25: no instance is initializing and initialized at once; an instance
\* never goes back (initialized stays initialized and never initializing
\* again, and an instance that left the window does not re-enter it);
\* is_initialized becomes true only in the step in which the instance's
\* initialize() returns normally; every instance in an initialized map is
\* initialized and not initializing.
C25_LifecycleOnlyMovesForward ==
  [][/\ \A n \in 1..Len(heap') :
          /\ ~(heap'[n].is_initializing /\ heap'[n].is_initialized)
          /\ (n <= Len(heap) /\ heap[n].is_initialized) =>
               heap'[n].is_initialized /\ ~heap'[n].is_initializing
          /\ (n <= Len(heap) /\ ~heap[n].is_initializing) => ~heap'[n].is_initializing
          /\ BecomesInitialized(n) =>
               /\ stack # <<>>
               /\ stack[Len(stack)].inst = n
               /\ last'.outcome # "raised"
     /\ \A n \in CachedAfter :
          heap'[n].is_initialized /\ ~heap'[n].is_initializing]_vars
\* The position of the first class of the list that register cannot place
\* (no registry for its kind, or the registry of its kind rejects its type);
\* one past the end when there is none.
FirstRejected(registries, klasses) ==
  IF \A j \in 1..Len(klasses) : Routable(registries, klasses[j])
  THEN Len(klasses) + 1
  ELSE CHOOSE j \in 1..Len(klasses) :
         /\ ~Routable(registries, klasses[j])
         /\ \A h \in 1..(j - 1) : Routable(registries, klasses[h])

OthersUntouched(r) ==
  \A q \in DOMAIN registrars : q # r => (q \in DOMAIN registrars' /\ registrars'[q] = registrars[q])

\* C27: registrars share neither registries nor instances: a register or a
\* get on one Bootstrap (and the end of a construction it started) changes
\* no registered or initialized map of another; the instance a get returns
\* refers back to the registry of the registrar it was asked of; and the
\* instances two registrars cache, for the same identity too, are distinct.
C27_RegistrarsShareNothing ==
  [][/\ \A r \in Bootstraps :
          (\/ \E klass \in PairClasses : RegistryRegister(r, "resource", klass)
           \/ \E klass \in PairClasses \cup {"MailerService"} : RegistrarRegister(r, <<klass>>)
           \/ \E x \in PairHandles : RegistryGet(r, "resource", x)
           \/ \E x \in PairHandles : GetResource(r, x)
           \/ \E resources \in PairLists : NewBootstrap(r, resources)) =>
            /\ OthersUntouched(r)
            /\ (last'.op \in GetOps /\ last'.value # 0) =>
                 heap'[last'.value].registry = <<r, "resource">>
     /\ (stack # <<>> /\ Len(stack') < Len(stack)) =>
          /\ OthersUntouched(stack[Len(stack)].r)
          /\ last'.value # 0 =>
               /\ heap'[last'.value].registry[1] = stack[Len(stack)].r
               /\ registrars'[stack[Len(stack)].r].registries[stack[Len(stack)].kind]
                    .initialized[stack[Len(stack)].ident] = last'.value
     /\ \A r \in DOMAIN registrars', q \in DOMAIN registrars' :
          r # q =>
            \A k \in DOMAIN registrars'[r].registries \cap DOMAIN registrars'[q].registries :
              \A i \in DOMAIN registrars'[r].registries[k].initialized,
                 j \in DOMAIN registrars'[q].registries[k].initialized :
                /\ registrars'[r].registries[k].initialized[i] #
                     registrars'[q].registries[k].initialized[j]
                /\ heap'[registrars'[r].registries[k].initialized[i]].registry = <<r, k>>]_vars

\* C27 witness: two Bootstraps each cache an instance of DatabaseResource
\* under "database": two instances, each referring to its own registry.
C27_Witness ==
  /\ DOMAIN registrars = Bootstraps
  /\ \A r \in Bootstraps :
       /\ "database" \in DOMAIN registrars[r].registries["resource"].initialized
       /\ heap[registrars[r].registries["resource"].initialized["database"]].registry
            = <<r, "resource">>
       /\ heap[registrars[r].registries["resource"].initialized["database"]].klass
            = "DatabaseResource"
  /\ registrars["r1"].registries["resource"].initialized["database"] #
       registrars["r2"].registries["resource"].initialized["database"]
  /\ last.op \in GetOps
  /\ last.outcome = "ok"
====
